---------------------------- MODULE Spec2Model ----------------------------
(***************************************************************************)
(* A model of wadltools/swaggerconverter.py: the deep merge of the         *)
(* defaults overlay (merge_dicts), the primitive type table                *)
(* (xsd_to_json_type), the parameter builder (build_param), the code       *)
(* sample repair (fix_json, build_code_sample) and the document walk       *)
(* (SwaggerConverter.convert).                                             *)
(*                                                                         *)
(* Data representation.  A nested Python mapping is a function from key    *)
(* paths (non-empty sequences of keys) to strings: DICT at a path whose    *)
(* value is a mapping, the literal text of the value at a leaf.  The root  *)
(* mapping itself is the empty path and is not stored.                     *)
(***************************************************************************)
EXTENDS Integers, Sequences, FiniteSets, TLC

VARIABLES
    pc,          \* position of the running operation
    generated,   \* merge_dicts: argument a as passed by the caller
    overlay,     \* merge_dicts: argument b
    key_order,   \* iteration order of the keys of a mapping (for key in b)
    merged,      \* outcome of merge_dicts(generated, overlay)
    remerged,    \* outcome of merge_dicts(merged, overlay)
    full_type,   \* xsd_to_json_type: its argument
    type_result, \* xsd_to_json_type: its outcome
    options,     \* convert: self.options (autofix, strict, nodoc)
    defaults,    \* convert: the overlay loaded by default_swagger_dict
    wadl,        \* convert: the source document
    swagger,     \* convert: the top-level keys of the document being built
    paths,       \* convert: swagger['paths'], path -> PathItem
    ri,          \* convert: index of the resource being processed
    mi,          \* convert: index of the method being processed
    si,          \* convert: index of the status code being processed
    built,       \* convert: the build_param calls of the latest step
    result       \* convert: running, returned, or the exception raised

mergeVars == <<generated, overlay, key_order, merged, remerged>>
typeVars == <<full_type, type_result>>

convertVars ==
    <<options, defaults, wadl, swagger, paths, ri, mi, si, built, result>>

vars == <<pc, mergeVars, typeVars, convertVars>>

\* an optional value: Python's None, or a value
None == [none |-> TRUE]
Some(v) == [none |-> FALSE, v |-> v]

(***************************************************************************)
(* Bounds of the explored inputs.                                          *)
(***************************************************************************)
MaxDepth == 2      \* nesting depth of the mappings handed to merge_dicts
MaxNodes == 3      \* number of keys (at all levels) in one such mapping
MaxTypeLen == 3    \* tokens in a declared type name
MaxParams == 2     \* parameters declared in one place
MaxLines == 4      \* lines of a code sample
MaxMethods == 2    \* methods of a resource

(***************************************************************************)
(* merge_dicts                                                             *)
(***************************************************************************)
DICT == "<dict>"
NaN == ".nan"      \* YAML's not-a-number float, the one leaf with x != x
Keys == {"a", "b"}
Leaves == {"1", "2", NaN}

NoTree == [p \in {} |-> DICT]

KeyPaths == UNION {[1..n -> Keys] : n \in 1..MaxDepth}

Parent(p) == SubSeq(p, 1, Len(p) - 1)

IsTree(t) ==
    \A p \in DOMAIN t :
        Len(p) > 1 => Parent(p) \in DOMAIN t /\ t[Parent(p)] = DICT

Trees ==
    UNION {{t \in [S -> Leaves \cup {DICT}] : IsTree(t)} :
              S \in {S \in SUBSET KeyPaths : Cardinality(S) <= MaxNodes}}

KeyOrders == {o \in [1..Cardinality(Keys) -> Keys] :
                 \A i, j \in DOMAIN o : o[i] = o[j] => i = j}

\* a[key] == b[key] on two values of which at most one is a mapping
PyEq(x, y) == x = y /\ x # NaN

IsPrefix(p, q) == Len(p) <= Len(q) /\ SubSeq(q, 1, Len(p)) = p

\* a[key] = b[key] for a key absent from a: the whole value is taken over
SetItem(a, b, p) ==
    LET sub == {q \in DOMAIN b : IsPrefix(p, q)}
    IN  [q \in DOMAIN a \cup sub |-> IF q \in sub THEN b[q] ELSE a[q]]

\* a message that names the key without the path that leads to it
JoinLastKey(p) == p[Len(p)]

\* '.'.join(path + [str(key)])
RECURSIVE Join(_)
Join(p) == IF Len(p) = 1 THEN p[1] ELSE p[1] \o "." \o Join(Tail(p))

\* the keys of the mapping at `path`, in iteration order
KeysOf(t, path) ==
    SelectSeq(key_order, LAMBDA k : Append(path, k) \in DOMAIN t)

Returned(a) == [a |-> a, raised |-> FALSE, msg |-> ""]
Raised(a, m) == [a |-> a, raised |-> TRUE, msg |-> m]

RECURSIVE MergeKeys(_, _, _, _)
MergeKeys(a, b, path, keys) ==
    IF keys = <<>> THEN Returned(a)
    ELSE
      LET p == Append(path, Head(keys)) IN
      IF p \in DOMAIN a
      THEN IF a[p] = DICT /\ b[p] = DICT
           THEN LET r == MergeKeys(a, b, p, KeysOf(b, p))
                IN  IF r.raised THEN r
                    ELSE MergeKeys(r.a, b, path, Tail(keys))
           ELSE IF PyEq(a[p], b[p])
           THEN MergeKeys(a, b, path, Tail(keys))
           ELSE Raised(a, "Conflict at " \o Join(p))
      ELSE MergeKeys(SetItem(a, b, p), b, path, Tail(keys))

merge_dicts(a, b, path) == MergeKeys(a, b, path, KeysOf(b, path))

IdleMerge ==
    /\ generated = NoTree
    /\ overlay = NoTree
    /\ merged = Returned(NoTree)
    /\ remerged = Returned(NoTree)

IdleType ==
    /\ full_type = None
    /\ type_result = None

NoWadl == [resources |-> <<>>]
NoOptions == [autofix |-> FALSE, strict |-> FALSE, nodoc |-> FALSE]
Running == [kind |-> "running"]

IdleConvert ==
    /\ options = NoOptions
    /\ defaults = NoTree
    /\ wadl = NoWadl
    /\ swagger = NoTree
    /\ paths = [k \in {} |-> ""]
    /\ ri = 0
    /\ mi = 0
    /\ si = 0
    /\ built = <<>>
    /\ result = Running

InitMerge ==
    /\ pc = "merge"
    /\ IdleType
    /\ IdleConvert
    /\ generated \in Trees
    /\ overlay \in Trees
    /\ key_order \in KeyOrders
    /\ merged = Returned(NoTree)
    /\ remerged = Returned(NoTree)

\* merge_dicts(generated, overlay)
Merge ==
    /\ pc = "merge"
    /\ merged' = merge_dicts(generated, overlay, <<>>)
    /\ pc' = "merged"
    /\ UNCHANGED <<generated, overlay, key_order, remerged, typeVars,
                   convertVars>>

\* merge_dicts(merge_dicts(generated, overlay), overlay)
MergeAgain ==
    /\ pc = "merged"
    /\ ~merged.raised
    /\ remerged' = merge_dicts(merged.a, overlay, <<>>)
    /\ pc' = "remerged"
    /\ UNCHANGED <<generated, overlay, key_order, merged, typeVars,
                   convertVars>>

NextMerge == Merge \/ MergeAgain

SpecMerge == InitMerge /\ [][NextMerge]_vars


(***************************************************************************)
(* Claims about merge_dicts                                                *)
(***************************************************************************)
\* the key paths at which the two mappings contradict each other: present in
\* both, not both mappings, and the two values compare unequal
Conflicts(a, b) ==
    {p \in DOMAIN a \cap DOMAIN b :
        ~(a[p] = DICT /\ b[p] = DICT) /\ (a[p] # b[p] \/ a[p] = NaN)}

\* the keys of a path, each but the last followed by a dot
RECURSIVE DottedPath(_)
DottedPath(p) ==
    IF p = <<>> THEN ""
    ELSE p[1] \o (IF Len(p) > 1 THEN "." ELSE "") \o DottedPath(Tail(p))

\* C1: merge_dicts never silently overrides.  Whenever some key path is
\* present in both mappings with unequal values (or a mapping against a
\* non-mapping), the merge raises and its message is "Conflict at " followed
\* by the full dotted path of a contradicting key; whenever the merge returns
\* normally, every leaf of `generated` is still there with the same value.
C1_NeverSilentlyOverrides ==
    pc # "merge" =>
      /\ Conflicts(generated, overlay) # {} =>
            /\ merged.raised
            /\ \E p \in Conflicts(generated, overlay) :
                  merged.msg = "Conflict at " \o DottedPath(p)
      /\ ~merged.raised =>
            \A p \in DOMAIN generated :
                generated[p] # DICT =>
                    p \in DOMAIN merged.a /\ merged.a[p] = generated[p]

\* a conflict below the top level is reported with its two-component path
C1_Witness ==
    /\ pc = "merged"
    /\ generated = (<<"a">> :> DICT @@ <<"a", "b">> :> "1")
    /\ overlay = (<<"a">> :> DICT @@ <<"a", "b">> :> "2")
    /\ merged.raised
    /\ merged.msg = "Conflict at a.b"

\* C7: merge_dicts is idempotent absent conflicts: when merge(a, b) returns,
\* merge(merge(a, b), b) returns too and equals merge(a, b).
C7_Idempotent ==
    pc = "remerged" => ~remerged.raised /\ remerged.a = merged.a

\* C7, restricted: the second merge can only fail at a leaf the overlay holds
\* that is unequal to itself; with no such leaf it returns the same mapping.
C7_IdempotentWithoutNaN ==
    (pc = "remerged" /\ \A p \in DOMAIN overlay : overlay[p] # NaN) =>
        ~remerged.raised /\ remerged.a = merged.a

(***************************************************************************)
(* xsd_to_json_type                                                        *)
(***************************************************************************)
\* A type name is a sequence of tokens; the string is their concatenation.
TypeTokens ==
    {":", "xs", "xsd", "csapi", "bogus", "boolean", "int", "integer",
     "decimal", "string", "anyURI", "dateTime", "date", "time", "UUID", "Foo"}

TypeNames == UNION {[1..n -> TypeTokens] : n \in 0..MaxTypeLen}

\* full_type.split(":")
RECURSIVE SplitColon(_, _, _)
SplitColon(toks, cur, acc) ==
    IF toks = <<>> THEN Append(acc, cur)
    ELSE IF Head(toks) = ":"
         THEN SplitColon(Tail(toks), "", Append(acc, cur))
         ELSE SplitColon(Tail(toks), cur \o Head(toks), acc)

RECURSIVE Text(_)
Text(toks) == IF toks = <<>> THEN "" ELSE Head(toks) \o Text(Tail(toks))

\* a table entry: a bare type name, or an inline schema fragment
Bare(t) == [bare |-> TRUE, frag |-> ("type" :> t)]
Frag(f) == [bare |-> FALSE, frag |-> f]

typemap ==
    [xsd |->
       [boolean |-> Bare("boolean"),
        int |-> Bare("integer"),
        integer |-> Bare("integer"),
        decimal |-> Bare("number"),
        string |-> Bare("string"),
        anyURI |-> Frag("type" :> "string" @@ "format" :> "uri"),
        dateTime |-> Frag("type" :> "string" @@ "format" :> "date-time"),
        date |-> Bare("string"),
        time |-> Bare("string")],
     csapi |->
       [UUID |-> Frag("type" :> "string")]]

TypeNone == [raised |-> FALSE, none |-> TRUE]
TypeEntry(e) == [raised |-> FALSE, none |-> FALSE, entry |-> e]
TypeRaise(e) == [raised |-> TRUE, err |-> e]

\* return typemap[namespace][xsd_type], KeyError -> None
Lookup(namespace, xsd_type) ==
    IF namespace \in DOMAIN typemap /\ xsd_type \in DOMAIN typemap[namespace]
    THEN TypeEntry(typemap[namespace][xsd_type])
    ELSE TypeNone

xsd_to_json_type(ft) ==
    IF ft.none THEN TypeNone
    ELSE IF \E i \in DOMAIN ft.v : ft.v[i] = ":"
    THEN LET parts == SplitColon(ft.v, "", <<>>) IN
         IF Len(parts) # 2
         THEN TypeRaise("ValueError")   \* namespace, xsd_type = <3 or more>
         ELSE Lookup(IF parts[1] \in {"", "xs"} THEN "xsd" ELSE parts[1],
                     parts[2])
    ELSE Lookup("xsd", Text(ft.v))

InitType ==
    /\ pc = "type"
    /\ IdleMerge
    /\ IdleConvert
    /\ key_order \in KeyOrders
    /\ full_type \in {None} \cup {Some(t) : t \in TypeNames}
    /\ type_result = None

MapType ==
    /\ pc = "type"
    /\ type_result' = xsd_to_json_type(full_type)
    /\ pc' = "typed"
    /\ UNCHANGED <<mergeVars, full_type, convertVars>>

NextType == MapType

SpecType == InitType /\ [][NextType]_vars

\* the table entry the specification gives for a type name with at most one ':'
Expected(ft) ==
    IF ft.none THEN TypeNone
    ELSE LET parts == SplitColon(ft.v, "", <<>>)
             ns == IF Len(parts) = 1 \/ parts[1] \in {"", "xs"}
                   THEN "xsd" ELSE parts[1]
             local == parts[Len(parts)]
         IN  IF ns = "xsd" /\ local \in DOMAIN typemap.xsd
             THEN TypeEntry(typemap.xsd[local])
             ELSE IF ns = "csapi" /\ local = "UUID"
             THEN TypeEntry(typemap.csapi.UUID)
             ELSE TypeNone

\* C8: xsd_to_json_type is total: for every input, also one with more than
\* one ':', it returns the table entry or none and never raises.
C8_Total ==
    pc = "typed" => ~type_result.raised

\* C8, restricted to names with at most one ':': the result is the table
\* entry of (normalized namespace, local name), or none.
C8_TableEntryOrNone ==
    (pc = "typed" /\ (full_type.none \/ Len(SplitColon(full_type.v, "", <<>>)) <= 2)) =>
        type_result = Expected(full_type)

(***************************************************************************)
(* style_to_in, build_param                                                *)
(*                                                                         *)
(* A Python dict with string keys is a function on the set of its keys.    *)
(* A source parameter is [name, style, required, type, doc]: what wadllib  *)
(* exposes as name, style, is_required, tag.get('type') and the doc tag.   *)
(***************************************************************************)
Put(d, k, v) == (k :> v) @@ d          \* d[k] = v
EmptyDict == [k \in {} |-> ""]

style_to_in ==
    [matrix |-> "unknown", query |-> "query", header |-> "header",
     template |-> "path", plain |-> "body"]

ParamRaise(e) == [raised |-> TRUE, err |-> e]
ParamOmitted == [raised |-> FALSE, omitted |-> TRUE]
ParamBuilt(p) == [raised |-> FALSE, omitted |-> FALSE, param |-> p]

\* lines 285-295: the fallback for an unmapped type, then update() or ["type"]
TypeFields(param, jt, wadl_type) ==
    LET json_type ==
            IF jt.none
            THEN IF options.autofix THEN Bare("string")
                 ELSE Bare(Text(wadl_type))
            ELSE jt.entry
    IN  IF json_type.bare
        THEN Put(param, "type", json_type.frag["type"])
        ELSE json_type.frag @@ param

\* lines 298-304 without the path rule
AutofixParamNoForce(param) ==
    IF param["in"] = "body" THEN None ELSE Some(param)

\* lines 298-304, under self.autofix: None for a body parameter, required
\* forced for a path parameter
AutofixParam(param) ==
    IF param["in"] = "body" THEN None
    ELSE IF param["in"] = "path" /\ param["required"] # TRUE
    THEN Some(Put(param, "required", TRUE))
    ELSE Some(param)

\* lines 306-312
Describe(param, wp) ==
    IF ~options.nodoc /\ ~wp.doc.none
    THEN Put(param, "description", wp.doc.v)
    ELSE param

\* line 283: wadl_param.tag.get('type', 'string')
WadlType(wp) == IF wp.type.none THEN <<"string">> ELSE wp.type.v

\* lines 278-281
NewParam(wp) ==
    "name" :> wp.name @@ "required" :> wp.required
        @@ "in" :> style_to_in[wp.style]

\* lines 297-304: the autofix rules apply under self.autofix only
Autofixed(typed) ==
    IF options.autofix THEN AutofixParam(typed) ELSE Some(typed)

\* lines 300 and 306-313, on the outcome of the autofix rules
Finish(wp, fixed) ==
    IF fixed.none THEN ParamOmitted ELSE ParamBuilt(Describe(fixed.v, wp))

\* lines 285-313, on the outcome jt of xsd_to_json_type
WithType(wp, jt) ==
    IF jt.raised THEN ParamRaise(jt.err)
    ELSE Finish(wp, Autofixed(TypeFields(NewParam(wp), jt, WadlType(wp))))

build_param(wp) ==
    IF wp.style \notin DOMAIN style_to_in THEN ParamRaise("KeyError")
    ELSE WithType(wp, xsd_to_json_type(Some(WadlType(wp))))

\* lines 102-104 and 140-142: the list is created on the first append
AddParameter(d, param) ==
    Put(d, "parameters",
        Append(IF "parameters" \in DOMAIN d THEN d["parameters"] ELSE <<>>,
               param))

\* lines 99-104 and 137-142: for param in params, into the dict d
RECURSIVE AppendParams(_, _, _)
RECURSIVE AppendParam(_, _, _, _)
AppendParams(d, ps, log) ==
    IF ps = <<>> THEN [raised |-> FALSE, d |-> d, log |-> log]
    ELSE AppendParam(d, ps, build_param(Head(ps)), log)

\* lines 100-104 and 138-142: one parameter, `out` what build_param made of
\* it; every call is logged with its outcome
AppendParam(d, ps, out, log) ==
    IF out.raised
    THEN [raised |-> TRUE, err |-> out.err, d |-> d,
          log |-> Append(log, [wp |-> Head(ps), out |-> out])]
    ELSE AppendParams(IF out.omitted THEN d ELSE AddParameter(d, out.param),
                      Tail(ps),
                      Append(log, [wp |-> Head(ps), out |-> out]))

(***************************************************************************)
(* Code samples: json.loads, fix_json, build_code_sample                   *)
(*                                                                         *)
(* A text is a sequence of lines and a line a sequence of characters from  *)
(* { [ ] } 1 and h, where h stands for any character no JSON document      *)
(* contains.  The JSON documents over these characters are 1, {}, [] and   *)
(* [v] for a document v; line breaks are whitespace.                       *)
(***************************************************************************)
RECURSIVE Flatten(_)
Flatten(text) ==
    IF text = <<>> THEN <<>> ELSE Head(text) \o Flatten(Tail(text))

\* the index after the JSON value that starts at t[i], 0 when there is none
RECURSIVE ParseValue(_, _)
ParseValue(t, i) ==
    IF i > Len(t) THEN 0
    ELSE IF t[i] = "1" THEN i + 1
    ELSE IF t[i] = "{"
    THEN IF i + 1 <= Len(t) /\ t[i + 1] = "}" THEN i + 2 ELSE 0
    ELSE IF t[i] = "["
    THEN IF i + 1 <= Len(t) /\ t[i + 1] = "]" THEN i + 2
         ELSE LET j == ParseValue(t, i + 1)
              IN  IF j # 0 /\ j <= Len(t) /\ t[j] = "]" THEN j + 1 ELSE 0
    ELSE 0

\* json.loads: one value, then end of input; data is the value's characters,
\* which is also what json.dumps prints of it up to whitespace
Parsed(t) == [ok |-> ParseValue(t, 1) = Len(t) + 1, data |-> t]

json_loads(text) == Parsed(Flatten(text))

Max(S) == CHOOSE x \in S : \A y \in S : y <= x
Min(S) == CHOOSE x \in S : \A y \in S : x <= y

BracketLines(text) ==
    {i \in 1..Len(text) : text[i] # <<>> /\ text[i][1] \in {"{", "["}}

\* re.match(r'.*^([\{\[].*)\Z', s, MULTILINE | DOTALL): the leading .* is
\* greedy and crosses line ends, so group(1) starts at the last line that
\* begins with { or [
GroupFrom(text, starts) ==
    IF starts = {} THEN None ELSE Some(SubSeq(text, Max(starts), Len(text)))

re_match(text) == GroupFrom(text, BracketLines(text))

FixRaise(e) == [raised |-> TRUE, err |-> e]
FixReturn(t) == [raised |-> FALSE, value |-> t]

\* the argument is element.text: None for an element without text
\* lines 198-200: if match: json_sample = match.group(1); json.loads(...)
Retry(json_sample, match) ==
    IF match.none THEN FixReturn(json_sample)
    ELSE IF json_loads(match.v).ok THEN FixReturn(match)
    ELSE FixRaise("ValueError")

\* the argument is element.text: None for an element without text
fix_json(json_sample) ==
    IF json_sample.none THEN FixRaise("TypeError")     \* json.loads(None)
    ELSE IF json_loads(json_sample.v).ok THEN FixReturn(json_sample)
    ELSE IF options.autofix THEN Retry(json_sample, re_match(json_sample.v))
    ELSE FixRaise("ValueError")

\* lines 329-335, on the outcome of json.loads
Examples(parsed) ==
    IF parsed.ok THEN "application/json" :> parsed.data ELSE EmptyDict

build_code_sample(wadl_code_sample) == Examples(json_loads(wadl_code_sample))

\* ' '.join(tokens)
RECURSIVE JoinSpace(_)
JoinSpace(toks) ==
    IF Len(toks) = 1 THEN toks[1]
    ELSE toks[1] \o " " \o JoinSpace(Tail(toks))

\* the status attribute is kept as its whitespace-separated tokens
build_response(wadl_response) ==
    "description" :>
        (IF wadl_response.doc.none
         THEN JoinSpace(wadl_response.status.v) \o " response"
         ELSE wadl_response.doc.v)

\* int(status)
IntOf == [s \in {"200", "404"} |-> IF s = "200" THEN 200 ELSE 404]

(***************************************************************************)
(* SwaggerConverter.convert                                                *)
(*                                                                         *)
(* The source document is [resources], a resource [path, params, methods], *)
(* a method [name, id, title, short_desc, request, response]: request is   *)
(* the sequence of its representations' parameter lists, response is None  *)
(* (no response tag) or [status, json, doc, samples].  A path is kept as   *)
(* its sequence of segments and separators.                                *)
(***************************************************************************)
TITLE == "API"              \* convert's title argument
WADL_FILE == "api.wadl"     \* convert's wadl_file argument
JSON_ONLY == "[application/json]"

Raise(e) == [kind |-> "raised", err |-> e]
\* WADLParseError(orig_message, wadl_file, location, cause)
WADLParseError(msg, file, location, cause) ==
    [kind |-> "raised", err |-> "WADLParseError", msg |-> msg,
     wadl_file |-> file, location |-> location, cause |-> cause]
ReturnedDoc == [kind |-> "returned"]

\* lines 69-74: both assignments sit in one try block
SeedMedia(t, d) ==
    IF <<"consumes">> \in DOMAIN d /\ <<"produces">> \in DOMAIN d
    THEN SetItem(SetItem(t, d, <<"consumes">>), d, <<"produces">>)
    ELSE Put(Put(t, <<"consumes">>, JSON_ONLY), <<"produces">>, JSON_ONLY)

\* lines 63-68
SeedInfo(t, d) ==
    IF <<"info">> \in DOMAIN d THEN SetItem(t, d, <<"info">>)
    ELSE Put(Put(Put(t, <<"info">>, DICT), <<"info", "title">>, TITLE),
             <<"info", "version">>, "Unknown")

\* lines 81-83
PathKey(path) ==
    IF options.autofix /\ ~(path # <<>> /\ path[1] = "/")
    THEN "/" \o Text(path)
    ELSE Text(path)

\* lines 114-118
Verb(m) == IF options.autofix /\ m.name = "copy" THEN "put" ELSE m.name

\* an assignment that keeps an operation the verb already has
SetVerbKeepFirst(item, verb) ==
    IF verb \in DOMAIN item THEN item ELSE Put(item, verb, EmptyDict)

\* line 119: swagger_method = swagger_resource[verb] = OrderedDict()
SetVerb(item, verb) == Put(item, verb, EmptyDict)

\* lines 121-131
Header(op, m) ==
    LET op1 == IF m.id.none THEN op ELSE Put(op, "operationId", m.id.v)
        op2 == Put(op1, "summary", m.title.v)
        op3 == IF m.short_desc.none THEN op2
               ELSE Put(op2, "description", m.short_desc.v)
    IN  Put(Put(op3, "produces", <<>>), "responses", <<>>)

\* lines 132-142: every representation of the request
RECURSIVE RequestParams(_, _, _)
RECURSIVE NextRepresentation(_, _)
RequestParams(op, reps, log) ==
    IF reps = <<>> THEN [raised |-> FALSE, d |-> op, log |-> log]
    ELSE NextRepresentation(reps, AppendParams(op, Head(reps), log))

\* line 134: the loop goes on unless build_param raised
NextRepresentation(reps, r) ==
    IF r.raised THEN r ELSE RequestParams(r.d, Tail(reps), r.log)

\* lines 144-152
Produces(op, m) ==
    IF ~m.response.none /\ m.response.v.json
    THEN Put(op, "produces", Append(op["produces"], "application/json"))
    ELSE op

\* lines 144-157, r the outcome of the request's parameters
ResponseHead(item, m, r) ==
    IF r.raised
    THEN [raised |-> TRUE, result |-> Raise(r.err), log |-> r.log]
    ELSE IF ~m.response.none /\ m.response.v.status.none
    THEN [raised |-> TRUE, result |-> Raise("BadWADLError"), log |-> r.log]
    ELSE [raised |-> FALSE, log |-> r.log,
          item |-> Put(item, Verb(m), Produces(r.d, m))]

\* lines 121-157, item the PathItem after line 119
Operation(item, m) ==
    ResponseHead(item, m,
                 RequestParams(Header(item[Verb(m)], m), m.request, <<>>))

\* lines 111-157: one method, up to the loop over the status codes
MethodStep(item, m) ==
    IF m.title.none
    THEN [raised |-> TRUE, result |-> Raise("KeyError"), log |-> <<>>]
    ELSE Operation(SetVerb(item, Verb(m)), m)

\* lines 160-161 and 181-182: swagger_method['responses'][int(status)] = ...
SetResponse(item, verb, tok, response) ==
    Put(item, verb,
        Put(item[verb], "responses",
            Put(item[verb]["responses"], IntOf[tok], response)))

\* lines 180-182: if code_sample: ...['examples'] = build_code_sample(...)
WithExamples(response, code_sample) ==
    IF ~code_sample.none /\ Flatten(code_sample.v) # <<>>
    THEN Put(response, "examples", build_code_sample(code_sample.v))
    ELSE response

\* lines 167-182, fixed the outcome of fix_json on the last sample
Sampled(item, verb, resp, tok, fixed) ==
    IF ~fixed.raised
    THEN [raised |-> FALSE,
          item |-> SetResponse(item, verb, tok,
                       WithExamples(build_response(resp), fixed.value))]
    ELSE IF fixed.err # "ValueError"
    THEN [raised |-> TRUE, result |-> Raise(fixed.err)]
    ELSE IF options.strict
    THEN [raised |-> TRUE,
          result |-> WADLParseError("Unparsable code sample", WADL_FILE,
                                    item[verb]["summary"], fixed.err)]
    ELSE [raised |-> FALSE,
          item |-> SetResponse(item, verb, tok,
                       WithExamples(build_response(resp),
                                    resp.samples[Len(resp.samples)]))]

\* lines 159-182: one status code of the response
StatusStep(item, verb, resp, tok) ==
    IF resp.samples = <<>>
    THEN [raised |-> FALSE,
          item |-> SetResponse(item, verb, tok, build_response(resp))]
    ELSE Sampled(item, verb, resp, tok,
                 fix_json(resp.samples[Len(resp.samples)]))

AfterResource(r) ==
    IF r < Len(wadl.resources)
    THEN [pc |-> "resource", ri |-> r + 1, mi |-> 0]
    ELSE [pc |-> "merge", ri |-> r, mi |-> 0]

AfterMethod(r, m) ==
    IF m < Len(wadl.resources[r].methods)
    THEN [pc |-> "method", ri |-> r, mi |-> m + 1]
    ELSE AfterResource(r)

Goto(next) == pc' = next.pc /\ ri' = next.ri /\ mi' = next.mi

Abort(e) ==
    /\ pc' = "done"
    /\ result' = e
    /\ UNCHANGED <<swagger, paths, ri, mi, si>>

\* lines 53-76
Seed ==
    /\ pc = "start"
    /\ swagger' = Put(SeedMedia(SeedInfo(<<"swagger">> :> "2.0", defaults),
                                defaults),
                      <<"paths">>, DICT)
    /\ paths' = EmptyDict
    /\ Goto(IF wadl.resources = <<>>
            THEN [pc |-> "merge", ri |-> 0, mi |-> 0]
            ELSE [pc |-> "resource", ri |-> 1, mi |-> 0])
    /\ UNCHANGED <<mergeVars, typeVars, options, defaults, wadl, si, built,
                   result>>

\* lines 84-110, r the outcome of the resource's own parameters
ResourceDone(res, r) ==
    /\ built' = r.log
    /\ IF r.raised THEN Abort(Raise(r.err))
       ELSE /\ paths' = Put(paths, PathKey(res.path), r.d)
            /\ Goto(IF res.methods = <<>> THEN AfterResource(ri)
                    ELSE [pc |-> "method", ri |-> ri, mi |-> 1])
            /\ UNCHANGED <<swagger, si, result>>

\* lines 78-110: a resource and its own parameters
Resource ==
    /\ pc = "resource"
    /\ ResourceDone(wadl.resources[ri],
                    AppendParams(EmptyDict, wadl.resources[ri].params, <<>>))
    /\ UNCHANGED <<mergeVars, typeVars, options, defaults, wadl>>

\* lines 111-159, r the outcome of the method up to its status codes
MethodDone(key, m, r) ==
    /\ built' = r.log
    /\ IF r.raised THEN Abort(r.result)
       ELSE /\ paths' = Put(paths, key, r.item)
            /\ IF ~m.response.none /\ m.response.v.status.v # <<>>
               THEN pc' = "status" /\ si' = 1 /\ UNCHANGED <<ri, mi>>
               ELSE Goto(AfterMethod(ri, mi)) /\ UNCHANGED si
            /\ UNCHANGED <<swagger, result>>

CurrentMethod == wadl.resources[ri].methods[mi]
CurrentKey == PathKey(wadl.resources[ri].path)

\* lines 111-157
Method ==
    /\ pc = "method"
    /\ MethodDone(CurrentKey, CurrentMethod,
                  MethodStep(paths[CurrentKey], CurrentMethod))
    /\ UNCHANGED <<mergeVars, typeVars, options, defaults, wadl>>

\* lines 159-182, r the outcome for one status code
StatusDone(key, resp, r) ==
    IF r.raised THEN Abort(r.result)
    ELSE /\ paths' = Put(paths, key, r.item)
         /\ IF si < Len(resp.status.v)
            THEN si' = si + 1 /\ UNCHANGED <<pc, ri, mi>>
            ELSE Goto(AfterMethod(ri, mi)) /\ UNCHANGED si
         /\ UNCHANGED <<swagger, result>>

\* lines 159-182
Status ==
    /\ pc = "status"
    /\ StatusDone(CurrentKey, CurrentMethod.response.v,
                  StatusStep(paths[CurrentKey], Verb(CurrentMethod),
                             CurrentMethod.response.v,
                             CurrentMethod.response.v.status.v[si]))
    /\ UNCHANGED <<mergeVars, typeVars, options, defaults, wadl, built>>

\* lines 183-184, r the outcome of merge_dicts
MergeDone(r) ==
    IF r.raised
    THEN /\ result' = [kind |-> "raised", err |-> "Exception", msg |-> r.msg]
         /\ UNCHANGED swagger
    ELSE /\ result' = ReturnedDoc
         /\ swagger' = r.a

\* lines 183-184
MergeDefaults ==
    /\ pc = "merge"
    /\ MergeDone(merge_dicts(swagger, defaults, <<>>))
    /\ pc' = "done"
    /\ UNCHANGED <<mergeVars, typeVars, options, defaults, wadl, paths, ri,
                   mi, si, built>>

NextConvert == Seed \/ Resource \/ Method \/ Status \/ MergeDefaults

(***************************************************************************)
(* The explored source documents, by what varies in them                   *)
(***************************************************************************)
DocKeyOrder ==
    <<"swagger", "info", "title", "version", "consumes", "produces", "host",
      "paths">>

RECURSIVE Reverse(_)
Reverse(q) == IF q = <<>> THEN <<>> ELSE Append(Reverse(Tail(q)), Head(q))

StartConvert ==
    /\ pc = "start"
    /\ IdleMerge
    /\ IdleType
    /\ swagger = NoTree
    /\ paths = EmptyDict
    /\ ri = 0
    /\ mi = 0
    /\ si = 0
    /\ built = <<>>
    /\ result = Running

Param(style, required, type, doc) ==
    [name |-> "p", style |-> style, required |-> required, type |-> type,
     doc |-> doc]

Response(status, samples) ==
    Some([status |-> status, json |-> TRUE, doc |-> None,
          samples |-> samples])

PlainMethod ==
    [name |-> "get", id |-> None, title |-> Some("List"),
     short_desc |-> None, request |-> <<>>,
     response |-> Response(Some(<<"200">>), <<>>)]

OneResource(path, params, methods) ==
    [resources |-> <<[path |-> path, params |-> params,
                      methods |-> methods]>>]

\* parameters: every style with either required flag and no declared type;
\* a mapped and a two-colon type in three styles; an unmapped type, with and
\* without documentation
ParamInputs ==
    {Param(s, r, None, None) : s \in DOMAIN style_to_in, r \in BOOLEAN}
    \cup {Param(s, FALSE, Some(t), None) :
            s \in {"template", "plain", "query"},
            t \in {<<"xsd", ":", "anyURI">>, <<"a", ":", "b", ":", "c">>}}
    \cup {Param("query", FALSE, Some(<<"bogus", ":", "Foo">>), d) :
            d \in {None, Some("A filter.")}}

ParamLists == UNION {[1..n -> ParamInputs] : n \in 0..MaxParams}

InitParams ==
    /\ StartConvert
    /\ key_order = DocKeyOrder
    /\ defaults = NoTree
    /\ options \in {[autofix |-> a, strict |-> FALSE, nodoc |-> n] :
                      a \in BOOLEAN, n \in BOOLEAN}
    /\ wadl \in
         {OneResource(<<"/", "r">>, ps, <<PlainMethod>>) : ps \in ParamLists}
         \cup
         {OneResource(<<"/", "r">>, <<>>,
                      <<[PlainMethod EXCEPT !.request = <<ps>>]>>) :
             ps \in ParamLists}

SpecParams == InitParams /\ [][NextConvert]_vars

\* code samples: header lines, brackets on their own line, whole documents
LineSet ==
    {<<"h">>, <<"[">>, <<"]">>, <<"[", "1", "]">>, <<"{", "}">>}

Texts == UNION {[1..n -> LineSet] : n \in 1..MaxLines}

SampleTexts == {None} \cup {Some(t) : t \in Texts}

SampleLists ==
    {<<t>> : t \in SampleTexts}
    \cup {<<Some(<<<<"h">>>>), t>> : t \in SampleTexts}

InitSamples ==
    /\ StartConvert
    /\ key_order = DocKeyOrder
    /\ defaults = NoTree
    /\ options \in {[autofix |-> a, strict |-> st, nodoc |-> FALSE] :
                      a \in BOOLEAN, st \in BOOLEAN}
    /\ wadl \in
         {OneResource(<<"/", "r">>, <<>>,
                      <<[PlainMethod EXCEPT
                           !.response = Response(Some(codes), samples)]>>) :
             codes \in {<<"200">>, <<"200", "404">>},
             samples \in SampleLists}

SpecSamples == InitSamples /\ [][NextConvert]_vars

\* methods: the verbs that can collide, with fields that tell two methods apart
MethodInputs ==
    {[name |-> n, id |-> i, title |-> Some(t), short_desc |-> None,
      request |-> IF rich
                  THEN <<<<Param("query", FALSE, None, None)>>>> ELSE <<>>,
      response |-> IF rich THEN Response(Some(<<"200">>), <<>>) ELSE None] :
        n \in {"get", "put", "copy"}, i \in {None, Some("op")},
        t \in {"first", "second"}, rich \in BOOLEAN}

MethodLists == UNION {[1..n -> MethodInputs] : n \in 0..MaxMethods}

InitVerbs ==
    /\ StartConvert
    /\ key_order = DocKeyOrder
    /\ defaults = NoTree
    /\ options \in {[autofix |-> a, strict |-> FALSE, nodoc |-> FALSE] :
                      a \in BOOLEAN}
    /\ wadl \in {OneResource(<<"/", "r">>, <<>>, ms) : ms \in MethodLists}

SpecVerbs == InitVerbs /\ [][NextConvert]_vars

\* overlays: the keys convert seeds from, and one it does not know
XML_ONLY == "[text/xml]"

Part(present, t) == IF present THEN t ELSE NoTree

OverlayOf(c, p, i, h) ==
    Part(~c.none, <<"consumes">> :> c.v)
    @@ Part(~p.none, <<"produces">> :> p.v)
    @@ Part(i, <<"info">> :> DICT @@ <<"info", "title">> :> "Cloud API"
                 @@ <<"info", "version">> :> "1.0")
    @@ Part(h, <<"host">> :> "example.com")

Overlays ==
    {OverlayOf(c, p, i, h) :
        c \in {None, Some(JSON_ONLY), Some(XML_ONLY)},
        p \in {None, Some(JSON_ONLY), Some(XML_ONLY)},
        i \in BOOLEAN, h \in BOOLEAN}

OverlayMethods ==
    {PlainMethod,
     [PlainMethod EXCEPT !.short_desc = Some("Lists things.")],
     [PlainMethod EXCEPT !.title = None],
     [PlainMethod EXCEPT !.response = Response(None, <<>>)],
     [PlainMethod EXCEPT !.response =
         Some([status |-> Some(<<"200", "404">>), json |-> FALSE,
               doc |-> Some("OK"), samples |-> <<>>])]}

OverlayWadls ==
    {NoWadl}
    \cup {OneResource(path, <<>>, <<m>>) :
            path \in {<<"foo">>, <<"/", "foo">>}, m \in OverlayMethods}
    \cup {[resources |->
             <<[path |-> <<"foo">>, params |-> <<>>, methods |-> <<>>],
               [path |-> <<"/", "bar">>, params |-> <<>>,
                methods |-> <<PlainMethod>>]>>]}

InitOverlay ==
    /\ StartConvert
    /\ key_order \in {DocKeyOrder, Reverse(DocKeyOrder)}
    /\ defaults \in Overlays
    /\ options \in {[autofix |-> a, strict |-> FALSE, nodoc |-> FALSE] :
                      a \in BOOLEAN}
    /\ wadl \in OverlayWadls

SpecOverlay == InitOverlay /\ [][NextConvert]_vars

(***************************************************************************)
(* Claims about build_param and the parameter lists of the document        *)
(***************************************************************************)
\* P holds of every parameter list of the document (PathItem.parameters and
\* Operation.parameters)
EveryParamList(P(_)) ==
    \A k \in DOMAIN paths :
        /\ "parameters" \in DOMAIN paths[k] => P(paths[k]["parameters"])
        /\ \A v \in DOMAIN paths[k] \ {"parameters"} :
              "parameters" \in DOMAIN paths[k][v] =>
                  P(paths[k][v]["parameters"])

PathMeansRequired(param) == param["in"] = "path" => param["required"] = TRUE

\* every parameter build_param returned in the latest step, and every
\* parameter of the document, is required when its location is path; a
\* template parameter is given the location path
PathParamsRequired ==
    /\ \A i \in DOMAIN built :
          (~built[i].out.raised /\ ~built[i].out.omitted) =>
              /\ PathMeansRequired(built[i].out.param)
              /\ built[i].wp.style = "template" =>
                    built[i].out.param["in"] = "path"
    /\ EveryParamList(LAMBDA l : \A i \in DOMAIN l : PathMeansRequired(l[i]))

\* C4: a Parameter whose location is path has required = true, in every
\* document and for every Parameter build_param returns, whatever the declared
\* required flag and whatever the autofix setting.
C4_PathParamsRequired == PathParamsRequired

\* C4, amended: with autofix on, a Parameter whose location is path has
\* required = true, in every document and for every Parameter build_param
\* returns, whatever the declared required flag.
C4_PathParamsRequiredUnderAutofix == options.autofix => PathParamsRequired

\* a template parameter declared not required reaches the returned document
\* as a required path parameter
C4_Witness ==
    /\ pc = "done"
    /\ result.kind = "returned"
    /\ options.autofix
    /\ wadl.resources[1].params # <<>>
    /\ wadl.resources[1].params[1].style = "template"
    /\ ~wadl.resources[1].params[1].required
    /\ paths["/r"]["parameters"][1]["in"] = "path"
    /\ paths["/r"]["parameters"][1]["required"] = TRUE

\* C9: with autofix on, build_param returns omitted, and raises no error, for
\* every source parameter of style plain; no parameter list of the document
\* has an entry with location body; a parameters key is never an empty list.
C9_BodyParamsOmitted ==
    options.autofix =>
        /\ \A i \in DOMAIN built :
              built[i].wp.style = "plain" =>
                  ~built[i].out.raised /\ built[i].out.omitted
        /\ EveryParamList(LAMBDA l :
              l # <<>> /\ \A i \in DOMAIN l : l[i]["in"] # "body")

\* C9, the part that holds: with autofix on, build_param never returns a
\* Parameter for a plain parameter, the document has no body entry, and no
\* parameters key is an empty list.
C9_NoBodyParameterInDocument ==
    /\ EveryParamList(LAMBDA l : l # <<>>)
    /\ options.autofix =>
          /\ \A i \in DOMAIN built :
                built[i].wp.style = "plain" =>
                    built[i].out.raised \/ built[i].out.omitted
          /\ EveryParamList(LAMBDA l : \A i \in DOMAIN l : l[i]["in"] # "body")

(***************************************************************************)
(* Claims about code samples                                               *)
(***************************************************************************)
\* the text of the selected (last) javascript code sample of the response
Sample ==
    LET samples == wadl.resources[1].methods[1].response.v.samples
    IN  samples[Len(samples)]

Suffix(t, i) == SubSeq(t, i, Len(t))

\* neither the text nor, under autofix, any of its suffixes that start at a
\* line beginning with { or [ is a JSON document
StillUnparsable(t) ==
    /\ ~json_loads(t).ok
    /\ options.autofix =>
          \A i \in BracketLines(t) : ~json_loads(Suffix(t, i)).ok

Responses == paths["/r"]["get"]["responses"]

NoExample(response) ==
    "examples" \in DOMAIN response =>
        "application/json" \notin DOMAIN response["examples"]

\* C2: when the selected sample still cannot be parsed after the autofix
\* retry, then with strict on convert raises WADLParseError carrying the file,
\* the operation's summary and the cause, and with strict off it returns with
\* no example for any status of the response; whatever the autofix setting.
C2_UnparsableSample ==
    (pc = "done" /\ ~Sample.none /\ StillUnparsable(Sample.v)) =>
        IF options.strict
        THEN /\ result.kind = "raised"
             /\ result.err = "WADLParseError"
             /\ result.wadl_file = WADL_FILE
             /\ result.location = "List"
             /\ result.cause = "ValueError"
        ELSE /\ result.kind = "returned"
             /\ \A c \in DOMAIN Responses : NoExample(Responses[c])

\* C3: with autofix off and strict off, a selected sample that is not JSON
\* lets convert return, and no Response of the response's status codes has an
\* examples key.
C3_NoExamplesKey ==
    (/\ pc = "done"
     /\ ~options.autofix /\ ~options.strict
     /\ ~Sample.none /\ ~json_loads(Sample.v).ok) =>
        /\ result.kind = "returned"
        /\ \A c \in DOMAIN Responses : "examples" \notin DOMAIN Responses[c]

\* header lines, then a JSON document that starts at the first line
\* beginning with { or [
HeadersThenJson(t) ==
    /\ BracketLines(t) # {}
    /\ Min(BracketLines(t)) > 1
    /\ \A i \in 1..(Min(BracketLines(t)) - 1) : t[i] = <<"h">>
    /\ json_loads(Suffix(t, Min(BracketLines(t)))).ok

\* C6: under autofix a sample made of header lines followed by a JSON
\* document, also one with inner lines beginning with { or [, is recovered
\* from its first such line: convert returns and every status has the
\* document as its application/json example.
C6_RecoversFromFirstBracketLine ==
    (/\ pc = "done"
     /\ options.autofix
     /\ ~Sample.none /\ HeadersThenJson(Sample.v)) =>
        /\ result.kind = "returned"
        /\ \A c \in DOMAIN Responses :
              /\ "examples" \in DOMAIN Responses[c]
              /\ "application/json" \in DOMAIN Responses[c]["examples"]
              /\ Responses[c]["examples"]["application/json"]
                   = Flatten(Suffix(Sample.v, Min(BracketLines(Sample.v))))

\* C6, what the code does: the retry starts at the last line beginning with
\* { or [, so the sample is recovered exactly when that suffix is a document.
C6_RecoversFromLastBracketLine ==
    (/\ pc = "done"
     /\ options.autofix
     /\ ~Sample.none /\ ~json_loads(Sample.v).ok
     /\ BracketLines(Sample.v) # {}) =>
        IF json_loads(Suffix(Sample.v, Max(BracketLines(Sample.v)))).ok
        THEN /\ result.kind = "returned"
             /\ \A c \in DOMAIN Responses :
                   Responses[c]["examples"]["application/json"]
                     = Flatten(Suffix(Sample.v, Max(BracketLines(Sample.v))))
        ELSE IF options.strict
        THEN result.kind = "raised" /\ result.err = "WADLParseError"
        ELSE /\ result.kind = "returned"
             /\ \A c \in DOMAIN Responses : Responses[c]["examples"] = EmptyDict

(***************************************************************************)
(* Claims about the overlay                                                *)
(***************************************************************************)
\* C5: consumes and produces are each the overlay's value when the overlay
\* defines the key and ["application/json"] otherwise; for every overlay
\* convert gets through seeding and merge without a conflict.
C5_MediaTypesFromOverlay ==
    pc = "done" =>
        /\ ~(result.kind = "raised" /\ result.err = "Exception")
        /\ result.kind = "returned" =>
              \A k \in {"consumes", "produces"} :
                  swagger[<<k>>] = IF <<k>> \in DOMAIN defaults
                                   THEN defaults[<<k>>] ELSE JSON_ONLY

\* C5, what the code does: the overlay's two values are taken only when it
\* defines both keys; otherwise both are seeded with ["application/json"] and
\* the merge raises on every key the overlay defines with another value.
C5_BothOrNeither ==
    pc = "done" /\ result.kind \in {"returned", "raised"} =>
        LET both == <<"consumes">> \in DOMAIN defaults
                    /\ <<"produces">> \in DOMAIN defaults
            clash == \E k \in {"consumes", "produces"} :
                        <<k>> \in DOMAIN defaults /\ defaults[<<k>>] # JSON_ONLY
        IN  IF result.kind = "returned"
            THEN /\ both \/ ~clash
                 /\ \A k \in {"consumes", "produces"} :
                       swagger[<<k>>] = IF both THEN defaults[<<k>>]
                                        ELSE JSON_ONLY
            ELSE result.err = "Exception" => ~both /\ clash

(***************************************************************************)
(* Claims about the verbs of a PathItem                                    *)
(***************************************************************************)
\* the verb a method is filed under
OutputVerb(m) == IF options.autofix /\ m.name = "copy" THEN "put" ELSE m.name

\* the Operation a method of MethodInputs yields when it is the only method
OperationAlone(m) ==
    LET head == "summary" :> m.title.v
                @@ "produces" :> (IF m.response.none THEN <<>>
                                  ELSE <<"application/json">>)
                @@ "responses" :> (IF m.response.none THEN EmptyDict
                                   ELSE 200 :> ("description" :> "200 response"))
        ident == IF m.id.none THEN EmptyDict ELSE "operationId" :> m.id.v
        params == IF m.request = <<>> THEN EmptyDict
                  ELSE "parameters" :>
                         <<"name" :> "p" @@ "required" :> FALSE
                             @@ "in" :> "query" @@ "type" :> "string">>
    IN  head @@ ident @@ params

Methods == wadl.resources[1].methods

LastWith(v) == Max({i \in DOMAIN Methods : OutputVerb(Methods[i]) = v})

\* C10: the verb -> Operation mapping of a PathItem is last-writer-wins.
\* convert returns; the PathItem has one Operation for each output verb, equal
\* in every field to the Operation of the last method filed under that verb
\* (with autofix on, copy is filed under put); with autofix off every method
\* is filed under its own name, so copy and put stay two operations.
C10_LastWriterWins ==
    pc = "done" =>
        /\ result.kind = "returned"
        /\ DOMAIN paths["/r"] = {OutputVerb(Methods[i]) : i \in DOMAIN Methods}
        /\ \A v \in DOMAIN paths["/r"] :
              paths["/r"][v] = OperationAlone(Methods[LastWith(v)])
        /\ ~options.autofix =>
              DOMAIN paths["/r"] = {Methods[i].name : i \in DOMAIN Methods}

\* copy then put under autofix: one operation, the put's, with nothing of the
\* copy's identifier, parameters or responses
C10_Witness ==
    /\ pc = "done"
    /\ result.kind = "returned"
    /\ options.autofix
    /\ Len(Methods) = 2
    /\ Methods[1].name = "copy" /\ ~Methods[1].id.none
    /\ Methods[1].request # <<>>
    /\ Methods[2].name = "put" /\ Methods[2].id.none
    /\ Methods[2].request = <<>>
    /\ DOMAIN paths["/r"] = {"put"}
    /\ DOMAIN paths["/r"]["put"] = {"summary", "produces", "responses"}
    /\ paths["/r"]["put"]["summary"] = Methods[2].title.v
    /\ paths["/r"]["put"]["responses"] = EmptyDict

=============================================================================
